---- MODULE Spec2Model ----
(***************************************************************************)
(* A model of excel-orm: the declarative mapping between record types and  *)
(* spreadsheet blocks (src/orm.py, src/column.py).                         *)
(*                                                                         *)
(* Python strings are sequences of one-character strings, so that strip(), *)
(* lower(), title() and the regular expressions of _camel_to_snake are     *)
(* computed character by character.  A cell value or a field value is a    *)
(* tagged record [k, s, n]: None, a str or an int.  Cell styling (fonts,   *)
(* alignment) is not represented.                                          *)
(***************************************************************************)
EXTENDS Integers, Sequences, FiniteSets, TLC

VARIABLES
    status,     \* "new" | "ok" | "failed": was ExcelFile(...) built
    sheets,     \* ExcelFile.sheets: the sequence of SheetSpec
    repos,      \* ExcelFile._repos: model -> Repository (a sequence of objects)
    exposed,    \* the attributes setattr() added: repo name -> model
    wb,         \* the workbook file at the path both operations are given
    intended,   \* the typed rows the user meant when filling the template
    prior,      \* the repositories as the last operation found them
    lastOp,     \* the operation that ran last
    err         \* the exception that operation raised, or "none"

vars == <<status, sheets, repos, exposed, wb, intended, prior, lastOp, err>>

----------------------------------------------------------------------------
(* Bounds of the model.                                                    *)

\* the user fills at most this many rows into a generated template
MaxFill == 2
\* the data rows of a hand-written document
MaxRows == 3

----------------------------------------------------------------------------
(* Python values and strings.                                              *)

None == [k |-> "none", s |-> <<>>, n |-> 0]
StrV(chars) == [k |-> "str", s |-> chars, n |-> 0]
IntV(i) == [k |-> "int", s |-> <<>>, n |-> i]

UPPER == <<"A","B","C","D","E","F","G","H","I","J","K","L","M",
           "N","O","P","Q","R","S","T","U","V","W","X","Y","Z">>
LOWER == <<"a","b","c","d","e","f","g","h","i","j","k","l","m",
           "n","o","p","q","r","s","t","u","v","w","x","y","z">>
DIGITS == <<"0","1","2","3","4","5","6","7","8","9">>

Range(f) == {f[i] : i \in DOMAIN f}
IsUpper(c) == c \in Range(UPPER)
IsLower(c) == c \in Range(LOWER)
IsDigit(c) == c \in Range(DIGITS)
IsSpace(c) == c = " "

IndexOf(seq, c) == CHOOSE i \in DOMAIN seq : seq[i] = c
lower_char(c) == IF IsUpper(c) THEN LOWER[IndexOf(UPPER, c)] ELSE c
upper_char(c) == IF IsLower(c) THEN UPPER[IndexOf(LOWER, c)] ELSE c

\* str.lower()
lower(s) == [i \in DOMAIN s |-> lower_char(s[i])]

\* str.title(): a cased character is upper-cased after an uncased one and
\* lower-cased after a cased one
IsCased(c) == IsUpper(c) \/ IsLower(c)
title(s) ==
    [i \in DOMAIN s |->
        IF i > 1 /\ IsCased(s[i - 1]) THEN lower_char(s[i]) ELSE upper_char(s[i])]

\* str.replace("_", " ")
replace_underscores(s) == [i \in DOMAIN s |-> IF s[i] = "_" THEN " " ELSE s[i]]

\* str.strip()
RECURSIVE lstrip(_)
lstrip(s) == IF s # <<>> /\ IsSpace(Head(s)) THEN lstrip(Tail(s)) ELSE s
RECURSIVE rstrip(_)
rstrip(s) ==
    IF s # <<>> /\ IsSpace(s[Len(s)]) THEN rstrip(SubSeq(s, 1, Len(s) - 1)) ELSE s
strip(s) == rstrip(lstrip(s))

\* str(n) of a non-negative int
RECURSIVE int_to_str(_)
int_to_str(n) ==
    IF n < 10 THEN <<DIGITS[n + 1]>>
    ELSE int_to_str(n \div 10) \o <<DIGITS[(n % 10) + 1]>>

\* str(v) of a cell value that is not None
str(v) == IF v.k = "int" THEN int_to_str(v.n) ELSE v.s

\* int(s) of a str: surrounding whitespace is ignored, then an optional sign
\* and decimal digits; anything else raises ValueError
RECURSIVE digits_value(_)
digits_value(s) ==
    IF s = <<>> THEN 0
    ELSE 10 * digits_value(SubSeq(s, 1, Len(s) - 1)) + (IndexOf(DIGITS, s[Len(s)]) - 1)
AllDigits(s) == s # <<>> /\ \A i \in DOMAIN s : IsDigit(s[i])
int_of_digits(body, negative) ==
    IF AllDigits(body)
    THEN [ok |-> TRUE, v |-> IF negative THEN 0 - digits_value(body) ELSE digits_value(body)]
    ELSE [ok |-> FALSE, v |-> 0]
int_of_stripped(t) ==
    IF t # <<>> /\ Head(t) \in {"+", "-"} THEN int_of_digits(Tail(t), Head(t) = "-")
    ELSE int_of_digits(t, FALSE)
int_of_str(s) == int_of_stripped(strip(s))

----------------------------------------------------------------------------
(* Repository names (orm.py, lines 16-35).                                 *)

\* re.sub("(.)([A-Z][a-z]+)", r"\1_\2", name): at the leftmost position where
\* any character is followed by an upper-case letter and at least one
\* lower-case letter, an underscore goes after the first character and the
\* scan resumes after the (greedy) run of lower-case letters
RECURSIVE LowerRunEnd(_, _)
LowerRunEnd(s, j) ==
    IF j + 1 <= Len(s) /\ IsLower(s[j + 1]) THEN LowerRunEnd(s, j + 1) ELSE j
RECURSIVE sub_word(_, _)
sub_word(s, i) ==
    IF i > Len(s) THEN <<>>
    ELSE IF i + 2 <= Len(s) /\ IsUpper(s[i + 1]) /\ IsLower(s[i + 2])
         THEN LET j == LowerRunEnd(s, i + 2)
              IN  <<s[i], "_">> \o SubSeq(s, i + 1, j) \o sub_word(s, j + 1)
         ELSE <<s[i]>> \o sub_word(s, i + 1)

\* re.sub("([a-z0-9])([A-Z])", r"\1_\2", s1)
RECURSIVE sub_hump(_, _)
sub_hump(s, i) ==
    IF i > Len(s) THEN <<>>
    ELSE IF i + 1 <= Len(s) /\ (IsLower(s[i]) \/ IsDigit(s[i])) /\ IsUpper(s[i + 1])
         THEN <<s[i], "_", s[i + 1]>> \o sub_hump(s, i + 2)
         ELSE <<s[i]>> \o sub_hump(s, i + 1)

_camel_to_snake(name) == lower(sub_hump(sub_word(name, 1), 1))

_pluralize(s) == IF s # <<>> /\ s[Len(s)] = "s" THEN s ELSE s \o <<"s">>

\* the attributes an ExcelFile has before any repository is exposed: the two
\* fields __init__ assigns first and the methods of the class
BuiltinAttrs ==
    { <<"s","h","e","e","t","s">>,
      <<"_","r","e","p","o","s">>,
      <<"g","e","n","e","r","a","t","e","_","t","e","m","p","l","a","t","e">>,
      <<"_","w","r","i","t","e","_","s","h","e","e","t","_","t","e","m","p","l","a","t","e">>,
      <<"l","o","a","d","_","d","a","t","a">>,
      <<"_","p","a","r","s","e","_","s","h","e","e","t">>,
      <<"_","f","i","n","d","_","h","e","a","d","e","r">> }

----------------------------------------------------------------------------
(* Columns (column.py).                                                    *)

\* ColumnSpec, bound to its field name by __set_name__.  validator names the
\* custom validator: "none" accepts everything, "not9" rejects the int 9.
Col(name, header, kind, not_null, excludes, validator) ==
    [name |-> name, header |-> header, kind |-> kind, strip |-> TRUE,
     not_null |-> not_null, excludes |-> excludes, validator |-> validator,
     default |-> None]

\* text_column's parse
parse_text(col, raw) ==
    IF raw = None THEN [ok |-> TRUE, v |-> StrV(<<>>)]
    ELSE [ok |-> TRUE, v |-> StrV(IF col.strip THEN strip(str(raw)) ELSE str(raw))]

\* int_column's parse
int_result(p) == [ok |-> p.ok, v |-> IntV(p.v)]
parse_int(col, raw) ==
    IF raw = None \/ raw = StrV(<<>>) THEN [ok |-> TRUE, v |-> IntV(0)]
    ELSE IF raw.k = "int" THEN [ok |-> TRUE, v |-> raw]
    ELSE int_result(int_of_str(raw.s))

\* Column.parse_cell
parse_cell(col, raw) ==
    IF col.kind = "int" THEN parse_int(col, raw) ELSE parse_text(col, raw)

\* ColumnSpec.validator
custom_validator(col, value) ==
    IF col.validator = "not9" /\ value = IntV(9) THEN "Validator" ELSE "none"

\* Column.validate: the exception it raises, or "none"
validate(col, value) ==
    IF col.not_null /\ (value = None \/ value = StrV(<<>>)) THEN "NotNull"
    ELSE custom_validator(col, value)

----------------------------------------------------------------------------
(* Record types.  A record type is a class: its __name__, its columns in   *)
(* annotation order, and an optional validate() method ("reject_b" raises  *)
(* when the first field is the text "b").                                  *)

s_make == <<"m","a","k","e">>
s_year == <<"y","e","a","r">>
s_name == <<"n","a","m","e">>
s_code == <<"c","o","d","e">>
s_vin == <<"v","i","n">>
s_tab == <<"t","a","b">>
s_note == <<"n","o","t","e">>
s_qty == <<"q","t","y">>

ModelDef ==
    [ Car |->
        [name |-> <<"C","a","r">>,
         cols |-> << Col(s_make, StrV(<<"M","k">>), "text", TRUE, {StrV(<<"x">>)}, "none"),
                     Col(s_year, StrV(<<"Y","r">>), "int", TRUE, {}, "not9") >>,
         hook |-> "none"],
      Plant |->
        [name |-> <<"P","l","a","n","t">>,
         cols |-> << Col(s_name, StrV(<<" ","N","m">>), "text", FALSE, {}, "none") >>,
         hook |-> "reject_b"],
      Part |->
        [name |-> <<"C","a","r","P","a","r","t">>,
         cols |-> << Col(s_code, StrV(<<"Y","r">>), "text", FALSE, {}, "none") >>,
         hook |-> "none"],
      Cars |->
        [name |-> <<"C","a","r","s">>,
         cols |-> << Col(s_vin, StrV(<<"V","n">>), "text", FALSE, {}, "none") >>,
         hook |-> "none"],
      Sheet |->
        [name |-> <<"S","h","e","e","t">>,
         cols |-> << Col(s_tab, StrV(<<"T","b">>), "text", FALSE, {}, "none") >>,
         hook |-> "none"],
      Memo |->
        [name |-> <<"M","e","m","o">>,
         cols |-> << Col(s_note, None, "text", FALSE, {}, "none"),
                     Col(s_qty, StrV(<<"Q","t">>), "int", FALSE, {}, "none") >>,
         hook |-> "none"] ]

Models == DOMAIN ModelDef

_repo_name_for_model(model) == _pluralize(_camel_to_snake(ModelDef[model].name))

_display_name_for_model(model) ==
    title(replace_underscores(_repo_name_for_model(model)))

_get_model_columns(model) == ModelDef[model].cols

\* the record type's validate() method, when it has one: the exception it
\* raises, or "none"
validate_hook(model, obj) ==
    IF ModelDef[model].hook = "reject_b" /\ obj[1] = StrV(<<"b">>) THEN "Validate"
    ELSE "none"

_normalize_header(v) == IF v = None THEN <<>> ELSE strip(str(v))

_row_is_blank(values) == \A i \in DOMAIN values : _normalize_header(values[i]) = <<>>

\* _instantiate_model: every field starts at its column's default
_instantiate_model(model) ==
    [i \in DOMAIN _get_model_columns(model) |-> _get_model_columns(model)[i].default]

----------------------------------------------------------------------------
(* Worksheets.  A worksheet holds the cells that have a value, its merged  *)
(* ranges and its column widths; a cell that is not held reads as None.    *)

EmptySheet == [cells |-> <<>>, merged |-> {}, widths |-> <<>>]

\* ws.cell(row, column).value
CellValue(ws, r, c) ==
    IF <<r, c>> \in DOMAIN ws.cells THEN ws.cells[<<r, c>>] ELSE None

\* ws.cell(row, column, value)
SetCell(ws, r, c, v) ==
    [ws EXCEPT !.cells =
        [p \in (DOMAIN ws.cells) \cup {<<r, c>>} |->
            IF p = <<r, c>> THEN v ELSE ws.cells[p]]]

SetWidth(ws, c, w) ==
    [ws EXCEPT !.widths =
        [k \in (DOMAIN ws.widths) \cup {c} |-> IF k = c THEN w ELSE ws.widths[k]]]

Max(S) == CHOOSE m \in S : \A k \in S : k <= m
Max2(a, b) == IF a >= b THEN a ELSE b
Min2(a, b) == IF a <= b THEN a ELSE b

\* the rows and the columns that hold a cell: cells with a value and the
\* cells of merged ranges
UsedRows(ws) == {p[1] : p \in DOMAIN ws.cells} \cup {m.row : m \in ws.merged}
UsedCols(ws) ==
    {p[2] : p \in DOMAIN ws.cells}
        \cup UNION {m.first .. m.last : m \in ws.merged}

\* ws.max_row, ws.max_column: 1 on a sheet without cells
max_row(ws) == IF UsedRows(ws) = {} THEN 1 ELSE Max(UsedRows(ws))
max_column(ws) == IF UsedCols(ws) = {} THEN 1 ELSE Max(UsedCols(ws))

\* SheetSpec
SheetSpec(name, models, title_row, header_row, data_start_row, gap) ==
    [name |-> name, models |-> models, title_row |-> title_row,
     header_row |-> header_row, data_start_row |-> data_start_row,
     template_table_gap |-> gap]

----------------------------------------------------------------------------
(* Template layout (orm.py, lines 107-157).                                *)

\* headers = [c.spec.header or c.name for c in cols]: None and "" are falsy
template_headers(model) ==
    [i \in DOMAIN _get_model_columns(model) |->
        LET c == _get_model_columns(model)[i]
        IN  IF c.header = None \/ c.header = StrV(<<>>) THEN StrV(c.name) ELSE c.header]

\* the header cells of one block, and the width of each header's column
RECURSIVE write_headers(_, _, _, _, _)
write_headers(ws, row, start_col, headers, j) ==
    IF j > Len(headers) THEN ws
    ELSE write_headers(
            SetWidth(SetCell(ws, row, start_col + j - 1, headers[j]),
                     start_col + j - 1,
                     Max2(12, Min2(40, Len(str(headers[j])) + 4))),
            row, start_col, headers, j + 1)

\* one pass of the loop over spec.models: the merged title cell and the
\* header cells of the block that starts at start_col
write_block(ws, spec, model, start_col) ==
    LET headers == template_headers(model)
        end_col == start_col + Len(headers) - 1
        merged == [ws EXCEPT !.merged =
                      @ \cup {[row |-> spec.title_row, first |-> start_col, last |-> end_col]}]
        titled == SetCell(merged, spec.title_row, start_col,
                          StrV(_display_name_for_model(model)))
    IN  write_headers(titled, spec.header_row, start_col, headers, 1)

\* current_col = end_col + 1 + spec.template_table_gap
next_col_no_gap(end_col, gap) == end_col + 1
next_col(end_col, gap) == end_col + 1 + gap

RECURSIVE write_blocks(_, _, _, _)
write_blocks(ws, spec, i, current_col) ==
    IF i > Len(spec.models) THEN ws
    ELSE LET width == Len(_get_model_columns(spec.models[i]))
             end_col == current_col + width - 1
         IN  write_blocks(write_block(ws, spec, spec.models[i], current_col),
                          spec, i + 1, next_col(end_col, spec.template_table_gap))

_write_sheet_template(spec) == write_blocks(EmptySheet, spec, 1, 1)

\* the workbook generate_template saves: one sheet per spec; the default
\* sheet stays when there is no spec
template_workbook(specs) ==
    IF Len(specs) = 0 THEN [exists |-> TRUE, sheets |-> [n \in {"Sheet"} |-> EmptySheet]]
    ELSE [exists |-> TRUE,
          sheets |-> [n \in {specs[i].name : i \in DOMAIN specs} |->
                        LET i == CHOOSE k \in DOMAIN specs : specs[k].name = n
                        IN  _write_sheet_template(specs[i])]]

----------------------------------------------------------------------------
(* Loading (orm.py, lines 159-230).                                        *)

NotFound == 0

\* the header-row cells at start_col .. start_col + width - 1, normalized
header_run(ws, r, start_col, width) ==
    [j \in 1 .. width |-> _normalize_header(CellValue(ws, r, start_col + j - 1))]

RECURSIVE scan_header(_, _, _, _, _)
scan_header(ws, r, expected, start_col, last) ==
    IF start_col > last THEN NotFound
    ELSE IF header_run(ws, r, start_col, Len(expected)) = expected THEN start_col
    ELSE scan_header(ws, r, expected, start_col + 1, last)

\* expected = [_normalize_header(c.spec.header) for c in cols]
expected_headers(model) ==
    [i \in DOMAIN _get_model_columns(model) |->
        _normalize_header(_get_model_columns(model)[i].header)]

find_expected(ws, spec, expected) ==
    IF expected = <<>> THEN NotFound
    ELSE scan_header(ws, spec.header_row, expected, 1,
                     max_column(ws) - Len(expected) + 1)

\* _find_header: the start column of the block, or NotFound
_find_header(ws, spec, model) == find_expected(ws, spec, expected_headers(model))

\* any(col.spec.excludes and row_vals[i] in col.spec.excludes ...)
row_excluded(cols, row_vals) ==
    \E i \in DOMAIN cols : cols[i].excludes # {} /\ row_vals[i] \in cols[i].excludes

\* Column.__set__: validate, then store
set_field(obj, i, value, raised) ==
    IF raised # "none" THEN [err |-> raised, obj |-> obj]
    ELSE [err |-> "none", obj |-> [obj EXCEPT ![i] = value]]

\* parsed = col.parse_cell(raw); setattr(obj, col.name, parsed)
parse_and_set(col, obj, i, parsed) ==
    IF ~parsed.ok THEN [err |-> "ParseError", obj |-> obj]
    ELSE set_field(obj, i, parsed.v, validate(col, parsed.v))

\* the for loop over the columns of one row, from the i-th on: the first
\* failure is raised
RECURSIVE set_fields(_, _, _, _)
fields_after(cols, row_vals, i, res) ==
    IF res.err # "none" THEN res ELSE set_fields(cols, row_vals, i + 1, res.obj)
set_fields(cols, row_vals, i, obj) ==
    IF i > Len(cols) THEN [err |-> "none", obj |-> obj]
    ELSE fields_after(cols, row_vals, i,
                      parse_and_set(cols[i], obj, i, parse_cell(cols[i], row_vals[i])))

\* validate = getattr(obj, "validate", None); if callable(validate): validate()
call_hook(model, res) ==
    IF res.err # "none" THEN res
    ELSE [err |-> validate_hook(model, res.obj), obj |-> res.obj]

\* the object of one row: fields, then the validate() method
build_object(model, row_vals) ==
    call_hook(model, set_fields(_get_model_columns(model), row_vals, 1,
                                _instantiate_model(model)))

\* row_vals = [ws.cell(row=r, column=start_col + j).value for j in range(width)]
read_row(ws, r, start_col, width) ==
    [j \in 1 .. width |-> CellValue(ws, r, start_col + j - 1)]

\* the while loop over the rows of a located block, from row r on
RECURSIVE load_rows(_, _, _, _, _)

\* an exception in a row leaves the loop and load_data
row_failed_skips(ws, model, start_col, r, repo, e) ==
    load_rows(ws, model, start_col, r + 1, repo)
row_failed(ws, model, start_col, r, repo, e) == [err |-> e, repo |-> repo]

\* an excluded row: r += 1; continue
row_skipped_stops(ws, model, start_col, r, repo) == [err |-> "none", repo |-> repo]
row_skipped(ws, model, start_col, r, repo) == load_rows(ws, model, start_col, r + 1, repo)

\* repo.append(obj); r += 1
row_built(ws, model, start_col, r, repo, res) ==
    IF res.err # "none" THEN row_failed(ws, model, start_col, r, repo, res.err)
    ELSE load_rows(ws, model, start_col, r + 1, Append(repo, res.obj))

\* an entirely blank row: break
row_blank_resumes(ws, model, start_col, r, repo) ==
    load_rows(ws, model, start_col, r + 1, repo)
row_blank(ws, model, start_col, r, repo) == [err |-> "none", repo |-> repo]

load_row(ws, model, start_col, r, repo, row_vals) ==
    IF _row_is_blank(row_vals) THEN row_blank(ws, model, start_col, r, repo)
    ELSE IF row_excluded(_get_model_columns(model), row_vals)
         THEN row_skipped(ws, model, start_col, r, repo)
         ELSE row_built(ws, model, start_col, r, repo, build_object(model, row_vals))

load_rows(ws, model, start_col, r, repo) ==
    IF r > max_row(ws) THEN [err |-> "none", repo |-> repo]
    ELSE load_row(ws, model, start_col, r, repo,
                  read_row(ws, r, start_col, Len(_get_model_columns(model))))

\* _parse_sheet: the loop over spec.models, from the i-th on
RECURSIVE parse_models(_, _, _, _)

\* found is None: continue
header_missing_raises(ws, spec, i, rs) == [err |-> "HeaderNotFound", repos |-> rs]
header_missing(ws, spec, i, rs) == parse_models(ws, spec, i + 1, rs)

\* the rows of the block went into the model's repository
block_loaded(ws, spec, i, rs, res) ==
    IF res.err # "none"
    THEN [err |-> res.err, repos |-> [rs EXCEPT ![spec.models[i]] = res.repo]]
    ELSE parse_models(ws, spec, i + 1, [rs EXCEPT ![spec.models[i]] = res.repo])

parse_model(ws, spec, i, rs, found) ==
    IF found = NotFound THEN header_missing(ws, spec, i, rs)
    ELSE block_loaded(ws, spec, i, rs,
                      load_rows(ws, spec.models[i], found, spec.data_start_row,
                                rs[spec.models[i]]))

parse_models(ws, spec, i, rs) ==
    IF i > Len(spec.models) THEN [err |-> "none", repos |-> rs]
    ELSE parse_model(ws, spec, i, rs, _find_header(ws, spec, spec.models[i]))

_parse_sheet(ws, spec, rs) == parse_models(ws, spec, 1, rs)

\* repo.clear() for every repository
clear_repos_none(rs) == rs
clear_repos(rs) == [m \in DOMAIN rs |-> <<>>]

\* the loop of load_data over self.sheets, from the i-th on
RECURSIVE load_sheets(_, _, _, _)
sheet_parsed(book, specs, i, res) ==
    IF res.err # "none" THEN res ELSE load_sheets(book, specs, i + 1, res.repos)
load_sheets(book, specs, i, rs) ==
    IF i > Len(specs) THEN [err |-> "none", repos |-> rs]
    ELSE IF specs[i].name \notin DOMAIN book.sheets
         THEN [err |-> "MissingSheet", repos |-> rs]
    ELSE sheet_parsed(book, specs, i,
                      _parse_sheet(book.sheets[specs[i].name], specs[i], rs))

\* load_data: load_workbook raises before anything else when the file is
\* not there
load_data(book, specs, rs) ==
    IF ~book.exists THEN [err |-> "FileNotFound", repos |-> rs]
    ELSE load_sheets(book, specs, 1, clear_repos(rs))

----------------------------------------------------------------------------
(* Construction (orm.py, lines 91-105).                                    *)

\* the models of all sheets, in the order __init__ visits them
RECURSIVE models_of(_, _)
models_of(specs, i) ==
    IF i > Len(specs) THEN <<>> ELSE specs[i].models \o models_of(specs, i + 1)

\* hasattr(self, repo_name)
hasattr(ex, repo_name) == repo_name \in BuiltinAttrs \/ repo_name \in DOMAIN ex

\* the double loop of __init__ over the models, from the i-th on
RECURSIVE register(_, _, _, _)
register(models, i, rs, ex) ==
    IF i > Len(models) THEN [err |-> "none", repos |-> rs, exposed |-> ex]
    ELSE LET model == models[i]
             repo_name == _repo_name_for_model(model)
         IN  IF hasattr(ex, repo_name)
             THEN [err |-> "DuplicateRepoName", repos |-> rs, exposed |-> ex]
             ELSE register(models, i + 1,
                    [m \in (DOMAIN rs) \cup {model} |-> IF m = model THEN <<>> ELSE rs[m]],
                    [a \in (DOMAIN ex) \cup {repo_name} |->
                        IF a = repo_name THEN model ELSE ex[a]])

----------------------------------------------------------------------------
(* What the user of the library does to the workbook file.                 *)

NoIntent == [filled |-> FALSE, rows |-> <<>>]
NoFile == [exists |-> FALSE, sheets |-> <<>>]

\* the column where the documented layout puts the i-th block of a sheet:
\* 1 for the first, then the previous start + its width + the gap
RECURSIVE documented_start(_, _)
documented_start(spec, i) ==
    IF i = 1 THEN 1
    ELSE documented_start(spec, i - 1)
            + Len(_get_model_columns(spec.models[i - 1])) + spec.template_table_gap

\* the two sample rows of a record type: what is typed into the cells and
\* the typed values the user means by it (tests/test_orm.py, lines 46-60)
sample_cell(col, k) ==
    IF col.kind = "text"
    THEN IF k = 1 THEN [raw |-> StrV(<<"a">>), typed |-> StrV(<<"a">>)]
         ELSE [raw |-> StrV(<<" ","c">>), typed |-> StrV(<<"c">>)]
    ELSE IF k = 1 THEN [raw |-> IntV(7), typed |-> IntV(7)]
         ELSE [raw |-> StrV(<<"1","2">>), typed |-> IntV(12)]
sample_raw(model, k) ==
    [j \in DOMAIN _get_model_columns(model) |-> sample_cell(_get_model_columns(model)[j], k).raw]
sample_typed(model, k) ==
    [j \in DOMAIN _get_model_columns(model) |-> sample_cell(_get_model_columns(model)[j], k).typed]

\* a row of cell values written from start_col on
RECURSIVE write_row(_, _, _, _, _)
write_row(ws, r, start_col, row_vals, j) ==
    IF j > Len(row_vals) THEN ws
    ELSE write_row(IF row_vals[j] = None THEN ws
                   ELSE SetCell(ws, r, start_col + j - 1, row_vals[j]),
                   r, start_col, row_vals, j + 1)

\* rows written below each other from row r on
RECURSIVE write_rows(_, _, _, _, _)
write_rows(ws, r, start_col, rows, t) ==
    IF t > Len(rows) THEN ws
    ELSE write_rows(write_row(ws, r + t - 1, start_col, rows[t], 1),
                    r, start_col, rows, t + 1)

\* rows[i] are the rows for the i-th block of the sheet, written at the
\* documented position of that block
RECURSIVE fill_blocks(_, _, _, _)
fill_blocks(ws, spec, rows, i) ==
    IF i > Len(spec.models) THEN ws
    ELSE fill_blocks(write_rows(ws, spec.data_start_row, documented_start(spec, i),
                                rows[i], 1),
                     spec, rows, i + 1)

SeqsUpTo(S, n) == UNION {[1 .. k -> S] : k \in 0 .. n}


\* the blocks of all sheets: <<sheet index, block index>>
Blocks(specs) ==
    UNION {{<<si, mi>> : mi \in DOMAIN specs[si].models} : si \in DOMAIN specs}

RECURSIVE TotalRows(_, _)
TotalRows(fill, B) ==
    IF B = {} THEN 0
    ELSE LET b == CHOOSE x \in B : TRUE
         IN  Len(fill[b]) + TotalRows(fill, B \ {b})

\* which sample rows go into which block: at least one row and at most
\* MaxFill rows in all
Fills(specs) ==
    {fill \in [Blocks(specs) -> SeqsUpTo({1, 2}, MaxFill)] :
        TotalRows(fill, Blocks(specs)) \in 1 .. MaxFill}

----------------------------------------------------------------------------
(* The operations.                                                         *)

Init ==
    /\ status = "new"
    /\ sheets = <<>>
    /\ repos = <<>>
    /\ exposed = <<>>
    /\ wb = NoFile
    /\ intended = NoIntent
    /\ prior = <<>>
    /\ lastOp = "init"
    /\ err = "none"

\* ExcelFile(sheets=specs)
Construct(Inputs) ==
    /\ status = "new"
    /\ \E specs \in Inputs :
        \E res \in {register(models_of(specs, 1), 1, <<>>, <<>>)} :
            /\ status' = IF res.err = "none" THEN "ok" ELSE "failed"
            /\ sheets' = specs
            /\ repos' = res.repos
            /\ exposed' = res.exposed
            /\ err' = res.err
    /\ prior' = repos
    /\ lastOp' = "construct"
    /\ UNCHANGED <<wb, intended>>

\* excel_file.generate_template(path)
GenerateTemplate ==
    /\ status = "ok"
    /\ wb' = template_workbook(sheets)
    /\ intended' = NoIntent
    /\ prior' = repos
    /\ lastOp' = "generate_template"
    /\ err' = "none"
    /\ UNCHANGED <<status, sheets, repos, exposed>>

\* excel_file.load_data(path)
LoadData ==
    /\ status = "ok"
    /\ \E res \in {load_data(wb, sheets, repos)} :
        /\ repos' = res.repos
        /\ err' = res.err
    /\ prior' = repos
    /\ lastOp' = "load_data"
    /\ UNCHANGED <<status, sheets, exposed, wb, intended>>

\* the user types rows into the freshly generated template, at the
\* documented positions, and saves it
FillTemplate ==
    /\ status = "ok"
    /\ wb = template_workbook(sheets)
    /\ \E fill \in Fills(sheets) :
        /\ wb' = [wb EXCEPT !.sheets =
                    [n \in DOMAIN wb.sheets |->
                        LET si == CHOOSE k \in DOMAIN sheets : sheets[k].name = n
                            rows == [mi \in DOMAIN sheets[si].models |->
                                        [t \in DOMAIN fill[<<si, mi>>] |->
                                            sample_raw(sheets[si].models[mi],
                                                       fill[<<si, mi>>][t])]]
                        IN  fill_blocks(wb.sheets[n], sheets[si], rows, 1)]]
        /\ intended' =
            [filled |-> TRUE,
             rows |-> [m \in DOMAIN repos |->
                        LET b == CHOOSE x \in Blocks(sheets) : sheets[x[1]].models[x[2]] = m
                        IN  [t \in DOMAIN fill[b] |-> sample_typed(m, fill[b][t])]]]
    /\ prior' = repos
    /\ lastOp' = "edit"
    /\ err' = "none"
    /\ UNCHANGED <<status, sheets, repos, exposed>>

\* the user deletes a sheet from the workbook
RemoveSheet ==
    /\ wb.exists
    /\ \E n \in DOMAIN wb.sheets :
        wb' = [wb EXCEPT !.sheets = [k \in (DOMAIN wb.sheets) \ {n} |-> wb.sheets[k]]]
    /\ intended' = NoIntent
    /\ prior' = repos
    /\ lastOp' = "edit"
    /\ err' = "none"
    /\ UNCHANGED <<status, sheets, repos, exposed>>

\* the user empties a sheet of the workbook
BlankSheet ==
    /\ wb.exists
    /\ \E n \in DOMAIN wb.sheets :
        /\ wb.sheets[n] # EmptySheet
        /\ wb' = [wb EXCEPT !.sheets[n] = EmptySheet]
    /\ intended' = NoIntent
    /\ prior' = repos
    /\ lastOp' = "edit"
    /\ err' = "none"
    /\ UNCHANGED <<status, sheets, repos, exposed>>

----------------------------------------------------------------------------
(* The specification: an orchestrator is built over one of the schemas,    *)
(* then templates are generated, edited and loaded in any order.           *)

Sheet1(models, gap) == SheetSpec("S1", models, 1, 2, 3, gap)
Sheet2(models, gap) == SheetSpec("S2", models, 1, 2, 3, gap)

Schemas ==
    { << Sheet1(<<"Car", "Plant">>, 2) >>,
      << Sheet1(<<"Plant", "Car">>, 0) >>,
      << Sheet1(<<"Part", "Car">>, 1) >>,
      << Sheet1(<<"Memo">>, 2) >>,
      << Sheet1(<<"Memo", "Car">>, 2) >>,
      << Sheet1(<<"Car">>, 2), Sheet2(<<"Plant">>, 2) >>,
      << Sheet1(<<"Memo">>, 2), Sheet2(<<"Car">>, 2) >>,
      << Sheet1(<<"Car">>, 2), Sheet2(<<"Cars">>, 2) >> }

Next ==
    \/ Construct(Schemas)
    \/ GenerateTemplate
    \/ FillTemplate
    \/ RemoveSheet
    \/ BlankSheet
    \/ LoadData

Spec == Init /\ [][Next]_vars

----------------------------------------------------------------------------
(* The template specification: the orchestrator is built over any short    *)
(* list of record types, with any gap and row layout, and writes templates.*)

\* a sheet lists at most this many record types
MaxModels == 2

Gaps == {0, 1, 2}

\* <<title_row, header_row, data_start_row>>
RowLayouts == {<<1, 2, 3>>, <<2, 1, 3>>, <<3, 1, 2>>, <<1, 3, 2>>}

ModelLists == UNION {[1 .. k -> Models] : k \in 1 .. MaxModels}

TemplateSchemas ==
    { << SheetSpec("S1", ms, rl[1], rl[2], rl[3], g) >> :
        ms \in ModelLists, rl \in RowLayouts, g \in Gaps }
    \cup { << Sheet1(<<a>>, 2), Sheet2(<<b>>, 2) >> : a \in Models, b \in Models }

NextTemplate ==
    \/ Construct(TemplateSchemas)
    \/ GenerateTemplate

SpecTemplate == Init /\ [][NextTemplate]_vars

----------------------------------------------------------------------------
(* The row specification: the orchestrator of one schema is given a        *)
(* hand-written document, any grid of MaxRows rows per block, and loads it.*)

RowsSchema == << Sheet1(<<"Car", "Plant">>, 2), Sheet2(<<"Part">>, 2) >>

CarRows ==
    { <<None, None>>,                          \* blank
      <<StrV(<<"a">>), IntV(7)>>,              \* valid
      <<StrV(<<"x">>), StrV(<<"z">>)>>,        \* excluded, year unparsable
      <<StrV(<<"a">>), StrV(<<"z">>)>>,        \* year unparsable
      <<StrV(<<" ">>), IntV(7)>>,              \* make empty after strip
      <<StrV(<<"a">>), IntV(9)>> }             \* year rejected by the validator
PlantRows ==
    { <<None>>,                                \* blank
      <<StrV(<<" ">>)>>,                       \* blank: only whitespace
      <<StrV(<<"c">>)>>,                       \* valid
      <<StrV(<<"b">>)>> }                      \* rejected by validate()

\* the rows a block may hold, in two families of documents: every kind of
\* Car row beside valid Plant rows, and every kind of Plant row beside
\* blank and valid Car rows
RowCases ==
    { [Car |-> CarRows, Plant |-> {<<StrV(<<"c">>)>>},
       Part |-> {<<StrV(<<"p">>)>>}],
      [Car |-> {<<None, None>>, <<StrV(<<"a">>), IntV(7)>>}, Plant |-> PlantRows,
       Part |-> {<<StrV(<<"p">>)>>}] }

\* the grids of one family: MaxRows rows of the family for each block
RECURSIVE Grids(_, _, _)
Grids(specs, case, B) ==
    IF B = {} THEN {<<>>}
    ELSE LET b == CHOOSE x \in B : TRUE
         IN  { [k \in (DOMAIN g) \cup {b} |-> IF k = b THEN rows ELSE g[k]] :
                 g \in Grids(specs, case, B \ {b}),
                 rows \in [1 .. MaxRows -> case[specs[b[1]].models[b[2]]]] }

\* the document of a grid: the template with the grid written into it
RowDoc(specs, grid) ==
    [exists |-> TRUE,
     sheets |-> [n \in {specs[i].name : i \in DOMAIN specs} |->
                  LET si == CHOOSE k \in DOMAIN specs : specs[k].name = n
                  IN  fill_blocks(_write_sheet_template(specs[si]), specs[si],
                                  [mi \in DOMAIN specs[si].models |-> grid[<<si, mi>>]], 1)]]

InitRows ==
    /\ status = "ok"
    /\ sheets = RowsSchema
    /\ repos = register(models_of(RowsSchema, 1), 1, <<>>, <<>>).repos
    /\ exposed = register(models_of(RowsSchema, 1), 1, <<>>, <<>>).exposed
    /\ \E case \in RowCases :
        \E grid \in Grids(RowsSchema, case, Blocks(RowsSchema)) :
            wb = RowDoc(RowsSchema, grid)
    /\ intended = NoIntent
    /\ prior = repos
    /\ lastOp = "edit"
    /\ err = "none"

NextRows == LoadData

SpecRows == InitRows /\ [][NextRows]_vars

----------------------------------------------------------------------------
(* What a document holds for a block, read off the cells.                  *)

\* a cell that counts as blank: no value, or a text of whitespace only
IsBlankCell(v) == v.k = "none" \/ (v.k = "str" /\ \A i \in DOMAIN v.s : v.s[i] = " ")

BlockRowBlank(ws, r, c, w) == \A j \in 0 .. w - 1 : IsBlankCell(CellValue(ws, r, c + j))

\* the data rows of the block at column c: from data_start_row down to the
\* row before the first entirely blank row
DataRows(ws, spec, c, w) ==
    {r \in spec.data_start_row .. max_row(ws) :
        \A q \in spec.data_start_row .. r : ~BlockRowBlank(ws, q, c, w)}

\* a row with a cell in the exclusion set of its column
RowExcluded(ws, model, r, c) ==
    \E j \in DOMAIN ModelDef[model].cols :
        CellValue(ws, r, c + j - 1) \in ModelDef[model].cols[j].excludes

KeptRows(ws, spec, model, c) ==
    {r \in DataRows(ws, spec, c, Len(ModelDef[model].cols)) : ~RowExcluded(ws, model, r, c)}

\* the object row r gives, or the exception it raises
RowObject(ws, model, r, c) ==
    build_object(model, read_row(ws, r, c, Len(ModelDef[model].cols)))

FailingRows(ws, spec, model, c) ==
    {r \in KeptRows(ws, spec, model, c) : RowObject(ws, model, r, c).err # "none"}

Min(S) == CHOOSE m \in S : \A k \in S : m <= k

\* the objects of the rows R, in row order
RECURSIVE ObjectsOf(_, _, _, _)
ObjectsOf(ws, model, c, R) ==
    IF R = {} THEN <<>>
    ELSE <<RowObject(ws, model, Min(R), c).obj>> \o ObjectsOf(ws, model, c, R \ {Min(R)})

IsPrefix(a, b) == Len(a) <= Len(b) /\ a = SubSeq(b, 1, Len(a))

\* the blocks of the orchestrator, in the order load_data visits them
BlockModel(b) == sheets[b[1]].models[b[2]]
BlockSpec(b) == sheets[b[1]]
BlockSheet(b) == wb.sheets[sheets[b[1]].name]
BlockWidth(b) == Len(ModelDef[BlockModel(b)].cols)
Before(a, b) == a[1] < b[1] \/ (a[1] = b[1] /\ a[2] < b[2])
AllSheetsPresent ==
    wb.exists /\ \A i \in DOMAIN sheets : sheets[i].name \in DOMAIN wb.sheets

\* the start columns at which the header row matches the expected labels
\* of the block's record type
HeaderMatches(b) ==
    {c \in 1 .. max_column(BlockSheet(b)) - BlockWidth(b) + 1 :
        \A j \in 1 .. BlockWidth(b) :
            _normalize_header(CellValue(BlockSheet(b), BlockSpec(b).header_row, c + j - 1))
                = _normalize_header(ModelDef[BlockModel(b)].cols[j].header)}

\* where the loader reads the block, and what the document holds there
BlockStart(b) == _find_header(BlockSheet(b), BlockSpec(b), BlockModel(b))
BlockKept(b) == KeptRows(BlockSheet(b), BlockSpec(b), BlockModel(b), BlockStart(b))
BlockFailing(b) == FailingRows(BlockSheet(b), BlockSpec(b), BlockModel(b), BlockStart(b))
BlockObjects(b, R) == ObjectsOf(BlockSheet(b), BlockModel(b), BlockStart(b), R)
ExpectedRepo(b) ==
    IF BlockStart(b) = NotFound THEN <<>> ELSE BlockObjects(b, BlockKept(b))

----------------------------------------------------------------------------
(* The claims.                                                             *)

\* C1: round trip.  After generate_template, rows typed at the documented
\* positions and load_data, the load succeeds, every block is found at the
\* column where the template put it, and every repository holds exactly
\* the intended typed rows, in row order.
C1_RoundTrip ==
    (lastOp = "load_data" /\ intended.filled) =>
        /\ err = "none"
        /\ \A b \in Blocks(sheets) :
            /\ BlockStart(b) = documented_start(BlockSpec(b), b[2])
            /\ repos[BlockModel(b)] = intended.rows[BlockModel(b)]

\* C2: missing sheet.  A load_data on a document that lacks the sheet of
\* some sheet specification fails with the missing-sheet error and leaves
\* every repository as it was before the call.
C2_MissingSheetKeepsRepos ==
    [][ (lastOp' = "load_data" /\ wb.exists /\ ~AllSheetsPresent)
            => (err' = "MissingSheet" /\ repos' = repos) ]_vars

\* C3: duplicate name.  Construction fails exactly when two different
\* record types derive the same repository name; otherwise every
\* referenced record type has one empty repository, exposed under its
\* derived name.
C3_DuplicateName ==
    status # "new" =>
        /\ status = "failed" <=>
            \E i, j \in DOMAIN models_of(sheets, 1) :
                /\ models_of(sheets, 1)[i] # models_of(sheets, 1)[j]
                /\ _repo_name_for_model(models_of(sheets, 1)[i])
                    = _repo_name_for_model(models_of(sheets, 1)[j])
        /\ status = "ok" =>
            \A i \in DOMAIN models_of(sheets, 1) :
                /\ models_of(sheets, 1)[i] \in DOMAIN repos
                /\ repos[models_of(sheets, 1)[i]] = <<>>
                /\ _repo_name_for_model(models_of(sheets, 1)[i]) \in DOMAIN exposed
                /\ exposed[_repo_name_for_model(models_of(sheets, 1)[i])]
                    = models_of(sheets, 1)[i]

\* C4: blank-row termination.  After a load, the repository of a located
\* block holds objects of the rows between data_start_row and the first
\* row that is blank across the block's own columns, and of no row at or
\* after it: a prefix of them when the load failed, all of them otherwise.
C4_BlankRowTermination ==
    lastOp = "load_data" =>
        \A b \in Blocks(sheets) :
            BlockStart(b) # NotFound =>
                /\ IsPrefix(repos[BlockModel(b)], BlockObjects(b, BlockKept(b)))
                /\ err = "none" => repos[BlockModel(b)] = BlockObjects(b, BlockKept(b))

\* C4 happens: a loaded block has a blank row with a non-blank row of the
\* same block below it and a non-blank cell of another block beside it
C4_Witness ==
    /\ lastOp = "load_data"
    /\ err = "none"
    /\ \E b \in Blocks(sheets) :
        /\ BlockStart(b) # NotFound
        /\ repos[BlockModel(b)] # <<>>
        /\ \E r \in BlockSpec(b).data_start_row .. max_row(BlockSheet(b)) - 1 :
            /\ BlockRowBlank(BlockSheet(b), r, BlockStart(b), BlockWidth(b))
            /\ ~BlockRowBlank(BlockSheet(b), r + 1, BlockStart(b), BlockWidth(b))
            /\ \E c \in 1 .. max_column(BlockSheet(b)) :
                ~IsBlankCell(CellValue(BlockSheet(b), r, c))

\* C5: exclusion filtering.  A load only fails on a row that is not
\* excluded, and a load that succeeds has taken one object from every
\* data row that is not excluded: an excluded row yields nothing, is not
\* parsed, and does not end the scan.
C5_ExclusionFiltering ==
    lastOp = "load_data" =>
        /\ err # "none" =>
            \E b \in Blocks(sheets) :
                /\ BlockStart(b) # NotFound
                /\ \E r \in BlockKept(b) :
                    RowObject(BlockSheet(b), BlockModel(b), r, BlockStart(b)).err = err
        /\ err = "none" =>
            \A b \in Blocks(sheets) :
                BlockStart(b) # NotFound =>
                    Len(repos[BlockModel(b)]) = Cardinality(BlockKept(b))

\* C5 happens: a load succeeded over an excluded row that could not have
\* been parsed, and took the row below it
C5_Witness ==
    /\ lastOp = "load_data"
    /\ err = "none"
    /\ \E b \in Blocks(sheets) :
        /\ BlockStart(b) # NotFound
        /\ \E r \in DataRows(BlockSheet(b), BlockSpec(b), BlockStart(b), BlockWidth(b)) :
            /\ RowExcluded(BlockSheet(b), BlockModel(b), r, BlockStart(b))
            /\ RowObject(BlockSheet(b), BlockModel(b), r, BlockStart(b)).err # "none"
            /\ r + 1 \in BlockKept(b)
            /\ repos[BlockModel(b)] # <<>>

\* the label the layout gives a column: its declared header or, when
\* there is none, its field name
ExpectedLabel(col) ==
    IF col.header = None \/ col.header = StrV(<<>>) THEN StrV(col.name) ELSE col.header

\* the columns of the i-th block of a sheet in the documented layout
BlockColumns(spec, i) ==
    documented_start(spec, i)
        .. documented_start(spec, i) + Len(ModelDef[spec.models[i]].cols) - 1

\* the template holds each block where the layout puts it: the merged
\* title cell, the headers in schema order, and no header cell elsewhere
BlocksPlaced(spec, ws) ==
    /\ \A i \in DOMAIN spec.models :
        /\ [row |-> spec.title_row, first |-> Min(BlockColumns(spec, i)),
            last |-> Max(BlockColumns(spec, i))] \in ws.merged
        /\ CellValue(ws, spec.title_row, Min(BlockColumns(spec, i))) # None
        /\ \A j \in DOMAIN ModelDef[spec.models[i]].cols :
            CellValue(ws, spec.header_row, documented_start(spec, i) + j - 1)
                = ExpectedLabel(ModelDef[spec.models[i]].cols[j])
    /\ Len(spec.models) >= 2 =>
        documented_start(spec, 2)
            = Len(ModelDef[spec.models[1]].cols) + spec.template_table_gap + 1
    /\ \A p \in DOMAIN ws.cells :
        p[1] = spec.header_row =>
            \E i \in DOMAIN spec.models : p[2] \in BlockColumns(spec, i)

\* no cell and no merged range on or below data_start_row
NothingInDataRows(spec, ws) ==
    /\ \A p \in DOMAIN ws.cells : p[1] < spec.data_start_row
    /\ \A m \in ws.merged : m.row < spec.data_start_row

\* C6 as stated: header placement determinism.  In a generated template
\* the first block starts at column 1 and each following block at the
\* previous start + the previous width + the gap (the second at w1 + g + 1),
\* the headers are on header_row in schema order, and no cell is written
\* on or below data_start_row.
C6_HeaderPlacement ==
    lastOp = "generate_template" =>
        \A i \in DOMAIN sheets :
            /\ BlocksPlaced(sheets[i], wb.sheets[sheets[i].name])
            /\ NothingInDataRows(sheets[i], wb.sheets[sheets[i].name])

\* C6 as amended: the same placement, and no cell is written on or below
\* data_start_row when title_row and header_row are both above it.
C6_HeaderPlacementAmended ==
    lastOp = "generate_template" =>
        \A i \in DOMAIN sheets :
            /\ BlocksPlaced(sheets[i], wb.sheets[sheets[i].name])
            /\ (sheets[i].title_row < sheets[i].data_start_row
                    /\ sheets[i].header_row < sheets[i].data_start_row)
                => NothingInDataRows(sheets[i], wb.sheets[sheets[i].name])

\* C6 happens: a template with two blocks of widths 2 and 1 and a gap of 2
\* has the second block's header at column 5
C6_Witness ==
    /\ lastOp = "generate_template"
    /\ \E i \in DOMAIN sheets :
        /\ Len(sheets[i].models) = 2
        /\ Len(ModelDef[sheets[i].models[1]].cols) = 2
        /\ sheets[i].template_table_gap = 2
        /\ sheets[i].data_start_row = 3
        /\ CellValue(wb.sheets[sheets[i].name], sheets[i].header_row, 5) # None
        /\ CellValue(wb.sheets[sheets[i].name], sheets[i].header_row, 4) = None

\* the located blocks with a row that raises, and the first of a set of
\* blocks in load order
FailingBlocks ==
    {b \in Blocks(sheets) : BlockStart(b) # NotFound /\ BlockFailing(b) # {}}
FirstOf(B) == CHOOSE b \in B : \A a \in B : ~Before(a, b)

\* C7: abort on first failure.  A load fails exactly when a row that is
\* loaded raises (parsing, field validation or the validate() method);
\* it fails with the exception of the first such row, the blocks before
\* it hold all their objects, its own block holds the objects of the rows
\* above it, and every later block, on this sheet or a later one, is empty.
C7_AbortOnFirstFailure ==
    (lastOp = "load_data" /\ AllSheetsPresent) =>
        \A B \in {FailingBlocks} :
            /\ err = "none" <=> B = {}
            /\ B # {} =>
                \A f \in {FirstOf(B)} :
                    \A r \in {Min(BlockFailing(f))} :
                        /\ err = RowObject(BlockSheet(f), BlockModel(f), r,
                                           BlockStart(f)).err
                        /\ repos[BlockModel(f)] =
                            BlockObjects(f, {k \in BlockKept(f) : k < r})
                        /\ \A b \in Blocks(sheets) :
                            /\ Before(b, f) => repos[BlockModel(b)] = ExpectedRepo(b)
                            /\ Before(f, b) => repos[BlockModel(b)] = <<>>

\* C7 happens: a load failed in the second block below a row it had taken,
\* after a first block with objects and before a sheet with rows
C7_Witness ==
    /\ lastOp = "load_data"
    /\ err # "none"
    /\ \E a, b, c \in Blocks(sheets) :
        /\ Before(a, b) /\ Before(b, c)
        /\ repos[BlockModel(a)] # <<>>
        /\ repos[BlockModel(b)] # <<>>
        /\ BlockFailing(b) # {}
        /\ BlockKept(c) # {}
        /\ repos[BlockModel(c)] = <<>>

\* C8: clear and rebuild.  After a load_data that succeeds every
\* repository holds exactly the objects of the document just loaded, in
\* row order, and nothing of an earlier load; generate_template changes
\* no repository.
C8_ClearAndRebuild ==
    /\ [](lastOp = "load_data" /\ err = "none" =>
            \A b \in Blocks(sheets) : repos[BlockModel(b)] = ExpectedRepo(b))
    /\ [][lastOp' = "generate_template" => repos' = repos]_vars

\* C8 happens: a load succeeded on repositories that held the objects of
\* an earlier load, and left other objects in them
C8_Witness ==
    /\ lastOp = "load_data"
    /\ err = "none"
    /\ \E b \in Blocks(sheets) :
        /\ prior[BlockModel(b)] # <<>>
        /\ repos[BlockModel(b)] # <<>>
        /\ repos[BlockModel(b)] # prior[BlockModel(b)]

\* C9: a header block that cannot be located is skipped silently.  A load
\* of a document with every sheet succeeds whichever blocks are missing in
\* it; a record type with no matching run of header cells (or on a sheet
\* narrower than its block) has an empty repository, and every other type,
\* on the same sheet or a later one, holds the objects of its block, read
\* at the first matching run.
C9_HeaderNotFoundSkips ==
    (lastOp = "load_data" /\ AllSheetsPresent) =>
        /\ err = "none"
        /\ \A b \in Blocks(sheets) :
            repos[BlockModel(b)] =
                IF HeaderMatches(b) = {} THEN <<>>
                ELSE ObjectsOf(BlockSheet(b), BlockModel(b), Min(HeaderMatches(b)),
                               KeptRows(BlockSheet(b), BlockSpec(b), BlockModel(b),
                                        Min(HeaderMatches(b))))

\* C9 happens: after a load, a block that could not be located comes
\* before a block that was loaded with objects
C9_Witness ==
    /\ lastOp = "load_data"
    /\ err = "none"
    /\ \E a, b \in Blocks(sheets) :
        /\ Before(a, b)
        /\ HeaderMatches(a) = {}
        /\ repos[BlockModel(b)] # <<>>

\* C10: the header locator.  It returns the smallest start column at
\* which the normalized header cells equal the expected labels, not-found
\* exactly when there is none, and the run it returns is the type's own
\* block, not columns inside the block of another type.
C10_HeaderLocator ==
    lastOp = "generate_template" =>
        \A b \in Blocks(sheets) :
            /\ BlockStart(b) =
                IF HeaderMatches(b) = {} THEN NotFound ELSE Min(HeaderMatches(b))
            /\ BlockStart(b) # NotFound =>
                \A i \in DOMAIN BlockSpec(b).models :
                    i # b[2] =>
                        ~(BlockStart(b) .. BlockStart(b) + BlockWidth(b) - 1
                            \subseteq BlockColumns(BlockSpec(b), i))

====
